---- MODULE Spec2Model ----
(***************************************************************************)
(* Verification model of the SSD glue code:                                *)
(*   ssd/models/ssd_base.py   SSDBase (build flags, forward/learn/infer,   *)
(*                            device moves)                                *)
(*   ssd/core/layers.py       Predictor.forward, Conv2d.block              *)
(*   data/utils.py            batch_ind_fn                                 *)
(* SSDBase is a state machine (SpecSSD); the three pure functions are      *)
(* applied to inputs drawn by their own initial predicates                 *)
(* (SpecPredictor, SpecBlock, SpecBatch).                                  *)
(***************************************************************************)
EXTENDS Integers, Sequences, FiniteSets, TLC

VARIABLES
    isbuilt_layer,        \* SSDBase._isbuilt_layer
    isbuilt_box,          \* SSDBase._isbuilt_box
    isbuilt_infBox,       \* SSDBase._isbuilt_infBox
    called_learn_inferr,  \* SSDBase._called_learn_inferr
    training,             \* nn.Module.training
    paramDevice,          \* device holding the module's parameters
    dboxDevice,           \* device holding defaultBox.dboxes ("unset" before build)
    succeeded,            \* history: some learn/infer call has returned normally
    call,                 \* the last SSDBase call: operation, arguments, outcome
    pc,                   \* position of a pure-function run: "input" or "done"
    inp,                  \* arguments of the pure function
    out                   \* its outcome

ssdVars == <<isbuilt_layer, isbuilt_box, isbuilt_infBox, called_learn_inferr,
             training, paramDevice, dboxDevice, succeeded, call>>
fnVars == <<pc, inp, out>>
vars == <<ssdVars, fnVars>>

----------------------------------------------------------------------------
(* Bounds *)
InputSize == 2        \* height = width of the configured input_shape
InputChannel == 3     \* channel of the configured input_shape
MaxDim == 3           \* image dimensions range over 2..MaxDim
MaxImgBatch == 2      \* leading dimension of a 4-d image

(* rgb_means / rgb_stds default to 3-tuples *)
MeansLen == 3

----------------------------------------------------------------------------
(* Generic helpers on sequences of numbers *)
RECURSIVE Prod(_)
Prod(s) == IF s = <<>> THEN 1 ELSE Head(s) * Prod(Tail(s))

RECURSIVE SumSeq(_)
SumSeq(s) == IF s = <<>> THEN 0 ELSE Head(s) + SumSeq(Tail(s))

Max(a, b) == IF a >= b THEN a ELSE b

RECURSIVE Ones(_)
Ones(n) == IF n <= 0 THEN <<>> ELSE <<1>> \o Ones(n - 1)

----------------------------------------------------------------------------
(* SSDBase *)

input_shape == <<InputSize, InputSize, InputChannel>>

isBuilt_WithoutInfBox == isbuilt_layer /\ isbuilt_box

isBuilt == isbuilt_layer /\ isbuilt_box /\ isbuilt_infBox

flags == <<isbuilt_layer, isbuilt_box, isbuilt_infBox, called_learn_inferr>>

Devices == {"cpu", "cuda:0"}

NoImage == [type |-> "none", shape |-> <<>>]

Call(op, result) ==
    [op |-> op, result |-> result, image |-> NoImage, convert_torch |-> FALSE,
     toNorm |-> FALSE, steps |-> <<>>, ret |-> <<>>, device |-> "none"]

Constructed ==
    /\ isbuilt_layer = FALSE
    /\ isbuilt_box = FALSE
    /\ isbuilt_infBox = FALSE
    /\ called_learn_inferr = FALSE
    /\ training = TRUE
    /\ paramDevice = "cpu"
    /\ dboxDevice = "unset"
    /\ succeeded = FALSE
    /\ call = Call("__init__", "ok")

\* check_instance(name, value, cls): returns the value when it is an instance
\* of cls and raises otherwise
check_instance(valid) == IF valid THEN "ok" ELSE "ValueError"

build_layers(valid) ==
    /\ call' = Call("_build_layers", check_instance(valid))
    /\ isbuilt_layer' = (IF valid THEN TRUE ELSE isbuilt_layer)
    /\ UNCHANGED <<isbuilt_box, isbuilt_infBox, called_learn_inferr, training,
                   paramDevice, dboxDevice, succeeded>>

build_defaultBox_NoGuard ==
    /\ call' = Call("_build_defaultBox", "ok")
    /\ dboxDevice' = "cpu"
    /\ isbuilt_box' = TRUE
    /\ UNCHANGED <<isbuilt_layer, isbuilt_infBox, called_learn_inferr, training,
                   paramDevice, succeeded>>

build_defaultBox ==
    /\ IF ~isbuilt_layer
         THEN /\ call' = Call("_build_defaultBox", "NotImplementedError")
              /\ UNCHANGED <<isbuilt_box, dboxDevice>>
         ELSE /\ call' = Call("_build_defaultBox", "ok")
              /\ dboxDevice' = "cpu"
              /\ isbuilt_box' = TRUE
    /\ UNCHANGED <<isbuilt_layer, isbuilt_infBox, called_learn_inferr, training,
                   paramDevice, succeeded>>

build_inferenceBox(valid) ==
    /\ call' = Call("_build_inferenceBox", check_instance(valid))
    /\ isbuilt_infBox' = (IF valid THEN TRUE ELSE isbuilt_infBox)
    /\ UNCHANGED <<isbuilt_layer, isbuilt_box, called_learn_inferr, training,
                   paramDevice, dboxDevice, succeeded>>

forward ==
    /\ call' = Call("forward",
                    IF ~isBuilt THEN "NotImplementedError"
                    ELSE IF ~called_learn_inferr THEN "NotImplementedError"
                    ELSE "ok")
    /\ UNCHANGED <<isbuilt_layer, isbuilt_box, isbuilt_infBox, called_learn_inferr,
                   training, paramDevice, dboxDevice, succeeded>>

learn_NoModeCheck ==
    /\ call' = Call("learn", "ok")
    /\ called_learn_inferr' = TRUE
    /\ succeeded' = TRUE
    /\ UNCHANGED <<isbuilt_layer, isbuilt_box, isbuilt_infBox, training,
                   paramDevice, dboxDevice>>

learn ==
    /\ IF ~training
         THEN /\ call' = Call("learn", "NotImplementedError")
              /\ UNCHANGED <<called_learn_inferr, succeeded>>
         ELSE /\ call' = Call("learn", "ok")
              /\ called_learn_inferr' = TRUE
              /\ succeeded' = TRUE
    /\ UNCHANGED <<isbuilt_layer, isbuilt_box, isbuilt_infBox, training,
                   paramDevice, dboxDevice>>

\* nn.Module.train() / nn.Module.eval()
train ==
    /\ training' = TRUE
    /\ call' = Call("train", "ok")
    /\ UNCHANGED <<isbuilt_layer, isbuilt_box, isbuilt_infBox, called_learn_inferr,
                   paramDevice, dboxDevice, succeeded>>

eval ==
    /\ training' = FALSE
    /\ call' = Call("eval", "ok")
    /\ UNCHANGED <<isbuilt_layer, isbuilt_box, isbuilt_infBox, called_learn_inferr,
                   paramDevice, dboxDevice, succeeded>>

----------------------------------------------------------------------------
(* SSDBase.infer *)

\* torch broadcasting of two shapes: right-aligned, a dimension of size 1 stretches
PadLeft(s, n) == Ones(n - Len(s)) \o s

Broadcastable(s1, s2) ==
    LET n == Max(Len(s1), Len(s2))
        a == PadLeft(s1, n)
        b == PadLeft(s2, n)
    IN \A k \in 1..n : a[k] = b[k] \/ a[k] = 1 \/ b[k] = 1

BroadcastShape(s1, s2) ==
    LET n == Max(Len(s1), Len(s2))
        a == PadLeft(s1, n)
        b == PadLeft(s2, n)
    IN [k \in 1..n |-> Max(a[k], b[k])]

\* images a caller can pass: a Tensor of some shape, or something that is no
\* list, ndarray or Tensor.  A list or an ndarray is first turned into the
\* Tensor of the same contents (torch.stack / torch.tensor) and then treated
\* like a Tensor, so shape stands for the shape the type dispatch yields.
ImgDims == 2..MaxDim
Shapes2 == {<<h, w>> : h \in ImgDims, w \in ImgDims}
Shapes3 == {<<a, b, c>> : a \in ImgDims, b \in ImgDims, c \in ImgDims}
Shapes4 == {<<n>> \o s : n \in 1..MaxImgBatch, s \in Shapes3}
Images ==
    [type : {"Tensor"}, shape : Shapes2 \cup Shapes3 \cup Shapes4]
    \cup {[type |-> "other", shape |-> <<>>]}

\* img.unsqueeze(0) when img.ndim == 3
Unsqueezed(shape) == IF Len(shape) = 3 THEN <<1>> \o shape ELSE shape

\* img.permute((0, 3, 1, 2)); only defined for 4 dimensions
PermuteNHWC(shape) == <<shape[1], shape[4], shape[2], shape[3]>>

\* shape of img at the arithmetic and at the shape check (lines 125-128)
ImgShape(image, convert_torch) ==
    IF convert_torch THEN PermuteNHWC(Unsqueezed(image.shape))
    ELSE Unsqueezed(image.shape)

\* shape of rgb_means / rgb_stds after the three unsqueeze calls
MeansShape == <<1, MeansLen, 1, 1>>

\* np.array(self.input_shape)[np.array([2, 0, 1])]
ExpectedShape == <<input_shape[3], input_shape[1], input_shape[2]>>

\* the comparison of line 142: list(img.shape[1:]) against the expected shape
ShapeMatches(shape) == Tail(shape) = ExpectedShape

InferCall(image, toNorm, convert_torch, steps, result, ret) ==
    [op |-> "infer", result |-> result, image |-> image,
     convert_torch |-> convert_torch, toNorm |-> toNorm, steps |-> steps,
     ret |-> ret, device |-> "none"]

\* outcome of infer in eval mode: the executed steps in order, the result and
\* the shapes of the returned (normed_img, orig_img)
InferOutcome(image, toNorm, convert_torch) ==
    IF image.type = "other"
      THEN InferCall(image, toNorm, convert_torch, <<"type">>, "ValueError:type", <<>>)
    ELSE IF convert_torch /\ Len(Unsqueezed(image.shape)) # 4
      THEN InferCall(image, toNorm, convert_torch, <<"type", "permute">>,
                     "RuntimeError", <<>>)
    ELSE LET shape == ImgShape(image, convert_torch)
             pre == IF convert_torch THEN <<"type", "permute">> ELSE <<"type">>
         IN IF ~Broadcastable(shape, MeansShape)
              THEN InferCall(image, toNorm, convert_torch, pre \o <<"arith">>,
                             "RuntimeError", <<>>)
            ELSE IF ~ShapeMatches(shape)
              THEN InferCall(image, toNorm, convert_torch,
                             pre \o <<"arith", "check">>, "ValueError:shape", <<>>)
            ELSE InferCall(image, toNorm, convert_torch,
                           pre \o <<"arith", "check">>, "ok",
                           IF toNorm
                             THEN <<BroadcastShape(shape, MeansShape), shape>>
                             ELSE <<shape, BroadcastShape(shape, MeansShape)>>)

infer(image, toNorm, convert_torch) ==
    /\ IF training
         THEN /\ call' = InferCall(image, toNorm, convert_torch, <<>>,
                                   "NotImplementedError", <<>>)
              /\ UNCHANGED <<called_learn_inferr, succeeded>>
         ELSE /\ call' = InferOutcome(image, toNorm, convert_torch)
              /\ IF call'.result = "ok"
                   THEN called_learn_inferr' = TRUE /\ succeeded' = TRUE
                   ELSE UNCHANGED <<called_learn_inferr, succeeded>>
    /\ UNCHANGED <<isbuilt_layer, isbuilt_box, isbuilt_infBox, training,
                   paramDevice, dboxDevice>>

----------------------------------------------------------------------------
(* SSDBase device management *)

DeviceCall(op, result, device) == [Call(op, result) EXCEPT !.device = device]

\* Tensor.to / Module.to with a device argument, or without one (dtype only)
MovedTo(current, device) == IF device = "none" THEN current ELSE device

\* to(): the parameters move first, then the build check; the result of
\* dboxes.to(...) is not stored, so dboxes stays where it was
to(device) ==
    /\ paramDevice' = MovedTo(paramDevice, device)
    /\ call' = DeviceCall("to", IF ~isBuilt THEN "NotImplementedError" ELSE "ok", device)
    /\ UNCHANGED <<isbuilt_layer, isbuilt_box, isbuilt_infBox, called_learn_inferr,
                   training, dboxDevice, succeeded>>

\* cuda(): the parameters move first; self.defaultBox exists only after
\* _build_defaultBox
cuda ==
    /\ paramDevice' = "cuda:0"
    /\ IF ~isbuilt_box
         THEN /\ call' = DeviceCall("cuda", "AttributeError", "cuda:0")
              /\ UNCHANGED dboxDevice
         ELSE /\ call' = DeviceCall("cuda", "ok", "cuda:0")
              /\ dboxDevice' = "cuda:0"
    /\ UNCHANGED <<isbuilt_layer, isbuilt_box, isbuilt_infBox, called_learn_inferr,
                   training, succeeded>>

InitSSD ==
    /\ Constructed
    /\ pc = "idle"
    /\ inp = <<>>
    /\ out = <<>>

NextSSD ==
    \/ \E valid \in BOOLEAN : build_layers(valid) /\ UNCHANGED fnVars
    \/ build_defaultBox /\ UNCHANGED fnVars
    \/ \E valid \in BOOLEAN : build_inferenceBox(valid) /\ UNCHANGED fnVars
    \/ forward /\ UNCHANGED fnVars
    \/ learn /\ UNCHANGED fnVars
    \/ \E image \in Images, toNorm \in BOOLEAN, convert_torch \in BOOLEAN :
          infer(image, toNorm, convert_torch) /\ UNCHANGED fnVars
    \/ train /\ UNCHANGED fnVars
    \/ eval /\ UNCHANGED fnVars
    \/ \E device \in Devices \cup {"none"} : to(device) /\ UNCHANGED fnVars
    \/ cuda /\ UNCHANGED fnVars

SpecSSD == InitSSD /\ [][NextSSD]_vars

----------------------------------------------------------------------------
(* Tensors: a shape and the elements in row-major (C) order.  Multi-indices *)
(* and flat offsets are 0-based as in torch; data is a 1-based sequence.    *)

MaxBatch == 2     \* batch size of the prediction tensors
MaxMaps == 2      \* number of feature maps
MaxHW == 2        \* height and width of a feature map
MaxVariants == 2  \* default boxes per cell
MaxClass == 2     \* class_nums
MaxTotal == 8     \* configured total_dbox_nums

Tensor(shape, data) == [shape |-> shape, data |-> data]

Numel(shape) == Prod(shape)

Stride(shape, k) == Prod(SubSeq(shape, k + 1, Len(shape)))

Unravel(n, shape) == [k \in 1..Len(shape) |-> (n \div Stride(shape, k)) % shape[k]]

Ravel(idx, shape) == SumSeq([k \in 1..Len(shape) |-> idx[k] * Stride(shape, k)])

At(t, idx) == t.data[Ravel(idx, t.shape) + 1]

\* Tensor.permute(dims) followed by contiguous(); dims is 1-based here
permute(t, dims) ==
    LET shape == [k \in 1..Len(dims) |-> t.shape[dims[k]]]
        Old(m) == [d \in 1..Len(dims) |-> m[CHOOSE k \in 1..Len(dims) : dims[k] = d]]
    IN Tensor(shape, [n \in 1..Numel(shape) |-> At(t, Old(Unravel(n - 1, shape)))])

\* Tensor.reshape(shape) where shape may hold one -1
Known(shape) == Prod([k \in 1..Len(shape) |-> IF shape[k] = -1 THEN 1 ELSE shape[k]])

CanReshape(t, shape) ==
    IF \E k \in 1..Len(shape) : shape[k] = -1
      THEN Known(shape) > 0 /\ Numel(t.shape) % Known(shape) = 0
      ELSE Numel(t.shape) = Known(shape)

reshape(t, shape) ==
    Tensor([k \in 1..Len(shape) |->
               IF shape[k] = -1 THEN Numel(t.shape) \div Known(shape) ELSE shape[k]],
           t.data)

\* torch.cat(ts, dim) with a 1-based dim
CanCat(ts, dim) ==
    \A a \in 1..Len(ts) :
        /\ Len(ts[a].shape) = Len(ts[1].shape)
        /\ \A k \in 1..Len(ts[1].shape) : k # dim => ts[a].shape[k] = ts[1].shape[k]

CatOffset(ts, dim, a) == SumSeq([k \in 1..a |-> ts[k].shape[dim]])

cat(ts, dim) ==
    LET shape == [ts[1].shape EXCEPT ![dim] = CatOffset(ts, dim, Len(ts))]
        Elem(m) ==
            LET a == CHOOSE x \in 1..Len(ts) :
                        /\ CatOffset(ts, dim, x - 1) <= m[dim]
                        /\ m[dim] < CatOffset(ts, dim, x)
            IN At(ts[a], [m EXCEPT ![dim] = m[dim] - CatOffset(ts, dim, a - 1)])
    IN Tensor(shape, [n \in 1..Numel(shape) |-> Elem(Unravel(n - 1, shape))])

----------------------------------------------------------------------------
(* Predictor.forward *)

\* the loc / conf tensor of feature map f: every scalar is named by where it
\* sits, <<kind, f, b, channel, i, j>>
InputTensor(kind, f, shape) ==
    Tensor(shape, [n \in 1..Numel(shape) |-> <<kind, f>> \o Unravel(n - 1, shape)])

Locs(in) ==
    [f \in 1..Len(in.fmaps) |->
        InputTensor("loc", f, <<in.batch, in.fmaps[f].v * 4, in.fmaps[f].h, in.fmaps[f].w>>)]

Confs(in) ==
    [f \in 1..Len(in.fmaps) |->
        InputTensor("conf", f, <<in.batch, in.fmaps[f].v * in.class_nums,
                                 in.fmaps[f].h, in.fmaps[f].w>>)]

\* x.permute((0, 2, 3, 1)).contiguous()
ChannelLast_NoPermute(t) == t

ChannelLast(t) == permute(t, <<1, 3, 4, 2>>)

\* one iteration of the loop: (batch, c, h, w) -> (batch, h*w*c)
Flattened(t) == reshape(ChannelLast(t), <<t.shape[1], -1>>)

PredictorForward(locs, confs, total_dbox_nums, class_nums) ==
    LET locs_flat == [f \in 1..Len(locs) |-> Flattened(locs[f])]
        confs_flat == [f \in 1..Len(confs) |-> Flattened(confs[f])]
        Raise == [result |-> "RuntimeError", shape |-> <<>>, data |-> <<>>]
    IN IF ~CanCat(locs_flat, 2) \/ ~CanCat(confs_flat, 2) THEN Raise
       ELSE LET locs_cat == cat(locs_flat, 2)
                confs_cat == cat(confs_flat, 2)
            IN IF ~CanReshape(locs_cat, <<-1, total_dbox_nums, 4>>) THEN Raise
               ELSE IF ~CanReshape(confs_cat, <<-1, total_dbox_nums, class_nums>>)
                 THEN Raise
               ELSE LET locs_reshaped == reshape(locs_cat, <<-1, total_dbox_nums, 4>>)
                        confs_reshaped ==
                            reshape(confs_cat, <<-1, total_dbox_nums, class_nums>>)
                    IN IF ~CanCat(<<locs_reshaped, confs_reshaped>>, 3) THEN Raise
                       ELSE LET r == cat(<<locs_reshaped, confs_reshaped>>, 3)
                            IN [result |-> "ok", shape |-> r.shape, data |-> r.data]

FeatureMaps == [h : 1..MaxHW, w : 1..MaxHW, v : 1..MaxVariants]

FeatureMapLists == UNION {[1..n -> FeatureMaps] : n \in 1..MaxMaps}

InitPredictor ==
    /\ Constructed
    /\ pc = "input"
    /\ inp \in [batch : 1..MaxBatch, fmaps : FeatureMapLists,
                class_nums : 1..MaxClass, total_dbox_nums : 1..MaxTotal]
    /\ out = <<>>

Forward ==
    /\ pc = "input"
    /\ out' = PredictorForward(Locs(inp), Confs(inp), inp.total_dbox_nums, inp.class_nums)
    /\ pc' = "done"
    /\ UNCHANGED inp

NextPredictor == Forward /\ UNCHANGED ssdVars

SpecPredictor == InitPredictor /\ [][NextPredictor]_vars

\* the number of default boxes the feature maps carry: sum of H*W*variants
DboxCount(fmaps) == SumSeq([f \in 1..Len(fmaps) |-> fmaps[f].h * fmaps[f].w * fmaps[f].v])

\* offset of feature map f in the default-box grid: boxes of the maps before it
GridOffset(fmaps, f) == DboxCount(SubSeq(fmaps, 1, f - 1))

C9_NeverMisaligned ==
    (pc = "done" /\ out.result = "ok") =>
        /\ out.shape[1] = inp.batch
        /\ \A x \in 1..Len(out.data) : out.data[x][3] = Unravel(x - 1, out.shape)[1]

----------------------------------------------------------------------------
(* Conv2d.block *)

MaxBlock == 3     \* block_num and tuple lengths range over 0..MaxBlock
MaxChan == 2      \* channel counts range over 1..MaxChan

Orders == {1, 2}

\* in_channels / out_channels: an int or a tuple of ints
IntArg(n) == [kind |-> "int", v |-> n]
TupleArg(t) == [kind |-> "tuple", v |-> t]

ChannelArgs ==
    {IntArg(n) : n \in 1..MaxChan}
    \cup {TupleArg(t) : t \in UNION {[1..n -> 1..MaxChan] : n \in 0..MaxBlock}}

\* lines 152-153: an int out_channels becomes block_num copies
ExpandOut(out_channels, block_num) ==
    IF out_channels.kind = "int"
      THEN [k \in 1..block_num |-> out_channels.v]
      ELSE out_channels.v

\* lines 154-158: an int in_channels becomes (in_channels,) + out_channels[:-1]
ExpandIn_WholeOut(in_channels, out_t) ==
    IF in_channels.kind = "int" THEN <<in_channels.v>> \o out_t ELSE in_channels.v

ExpandIn(in_channels, out_t) ==
    IF in_channels.kind = "int"
      THEN <<in_channels.v>> \o SubSeq(out_t, 1, Len(out_t) - 1)
      ELSE in_channels.v

\* the entries one loop iteration appends (lines 166-177)
BlockEntries(order, bnum, in_c, out_c, batch_norm) ==
    LET conv == [name |-> <<"conv", order, bnum + 1>>, layer |-> <<"Conv2d", in_c, out_c>>]
        bn == [name |-> <<"bn", order, bnum + 1>>, layer |-> <<"BatchNorm2d", out_c>>]
    IN IF ~batch_norm THEN <<conv>> ELSE <<conv, bn>>

RECURSIVE BlockLayers(_, _, _, _, _)
BlockLayers(order, in_t, out_t, batch_norm, n) ==
    IF n = 0 THEN <<>>
    ELSE BlockLayers(order, in_t, out_t, batch_norm, n - 1)
         \o BlockEntries(order, n - 1, in_t[n], out_t[n], batch_norm)

block(order, block_num, in_channels, out_channels, batch_norm) ==
    LET out_t == ExpandOut(out_channels, block_num)
        in_t == ExpandIn(in_channels, out_t)
    IN IF ~(Len(out_t) = block_num /\ Len(in_t) = Len(out_t))
         THEN [result |-> "ValueError", layers |-> <<>>]
         ELSE [result |-> "ok",
               layers |-> BlockLayers(order, in_t, out_t, batch_norm, Len(out_t))]

InitBlock ==
    /\ Constructed
    /\ pc = "input"
    /\ inp \in [order : Orders, block_num : 0..MaxBlock, in_channels : ChannelArgs,
                out_channels : ChannelArgs, batch_norm : BOOLEAN]
    /\ out = <<>>

Block ==
    /\ pc = "input"
    /\ out' = block(inp.order, inp.block_num, inp.in_channels, inp.out_channels,
                    inp.batch_norm)
    /\ pc' = "done"
    /\ UNCHANGED inp

NextBlock == Block /\ UNCHANGED ssdVars

SpecBlock == InitBlock /\ [][NextBlock]_vars

\* C6: with an int out_channels read as block_num copies and an int in_channels
\* read as the chain (in_channels, out_channels[0], ..., out_channels[-2]),
\* block raises ValueError and returns no layers exactly when
\* len(out_channels) # block_num or len(in_channels) # len(out_channels);
\* otherwise it returns block_num conv entries conv{order}_1..conv{order}_{block_num},
\* the k-th built from (in_channels[k], out_channels[k]), each followed by a
\* bn entry iff batch_norm.
C6_BlockFailsFast ==
    pc = "done" =>
        LET n == inp.block_num
            outs == IF inp.out_channels.kind = "int"
                      THEN [k \in 1..n |-> inp.out_channels.v]
                      ELSE inp.out_channels.v
            ins == IF inp.in_channels.kind = "int"
                     THEN [k \in 1..(IF Len(outs) = 0 THEN 1 ELSE Len(outs)) |->
                              IF k = 1 THEN inp.in_channels.v ELSE outs[k - 1]]
                     ELSE inp.in_channels.v
            bad == Len(outs) # n \/ Len(ins) # Len(outs)
            step == IF inp.batch_norm THEN 2 ELSE 1
        IN /\ (out.result = "ValueError") <=> bad
           /\ bad => out.layers = <<>>
           /\ ~bad =>
                /\ out.result = "ok"
                /\ Len(out.layers) = n * step
                /\ \A k \in 1..n :
                     /\ out.layers[(k - 1) * step + 1] =
                          [name |-> <<"conv", inp.order, k>>,
                           layer |-> <<"Conv2d", ins[k], outs[k]>>]
                     /\ inp.batch_norm =>
                          out.layers[(k - 1) * step + 2] =
                            [name |-> <<"bn", inp.order, k>>,
                             layer |-> <<"BatchNorm2d", outs[k]>>]

\* a three-layer block built from an int in_channels and a tuple out_channels
C6_Witness ==
    /\ pc = "done"
    /\ inp.block_num = 3
    /\ inp.in_channels = IntArg(1)
    /\ inp.out_channels = TupleArg(<<2, 1, 2>>)
    /\ inp.batch_norm
    /\ out.result = "ok"
    /\ Len(out.layers) = 6

----------------------------------------------------------------------------
(* batch_ind_fn *)

MaxBatchLen == 2  \* images in a batch
MaxRows == 2      \* ground-truth rows of one image
MaxCols == 2      \* columns of a ground-truth row

\* ground-truth values: one that float32 represents exactly and one it does not
GtValues == {1, 16777217}

RECURSIVE Log2Floor(_)
Log2Floor(x) == IF x < 2 THEN 0 ELSE 1 + Log2Floor(x \div 2)

\* torch.Tensor(ndarray): conversion of a float64 value to float32 (24-bit
\* significand, round to nearest, ties to even); x is a natural number here,
\* which the float64 array of lines 14-16 holds exactly
Float32(x) ==
    IF x < 2^24 THEN x
    ELSE LET ulp == 2^(Log2Floor(x) - 23)
             q == x \div ulp
             r == x % ulp
         IN IF 2 * r < ulp THEN q * ulp
            ELSE IF 2 * r > ulp THEN (q + 1) * ulp
            ELSE IF q % 2 = 0 THEN q * ulp ELSE (q + 1) * ulp

GtArrays ==
    UNION {[shape : {<<m, k>>}, rows : [1..m -> [1..k -> GtValues]]] :
              m \in 0..MaxRows, k \in 1..MaxCols}

\* lines 14-16: a zero array one column wider, the rows copied into columns
\* 1.., the image's index written in column 0
TagRows_OneBased(ind, gt) ==
    [shape |-> <<gt.shape[1], gt.shape[2] + 1>>,
     rows |-> [r \in 1..gt.shape[1] |-> <<ind + 1>> \o gt.rows[r]]]

TagRows(ind, gt) ==
    [shape |-> <<gt.shape[1], gt.shape[2] + 1>>,
     rows |-> [r \in 1..gt.shape[1] |-> <<ind>> \o gt.rows[r]]]

\* np.concatenate along axis 0
RECURSIVE ConcatRows(_)
ConcatRows(arrays) ==
    IF arrays = <<>> THEN <<>> ELSE Head(arrays).rows \o ConcatRows(Tail(arrays))

batch_ind_fn(batch) ==
    LET ret_gts == [b \in 1..Len(batch) |-> TagRows(b - 1, batch[b].gt)]
    IN IF \E b \in 1..Len(batch) : ret_gts[b].shape[2] # ret_gts[1].shape[2]
         THEN [result |-> "ValueError", imgs |-> <<>>, gts |-> <<>>]
         ELSE LET rows == ConcatRows(ret_gts)
              IN [result |-> "ok",
                  imgs |-> [b \in 1..Len(batch) |-> batch[b].img],
                  gts |-> [r \in 1..Len(rows) |->
                              [c \in 1..Len(rows[r]) |-> Float32(rows[r][c])]]]

InitBatch ==
    /\ Constructed
    /\ pc = "input"
    /\ \E n \in 1..MaxBatchLen :
          \E gts \in [1..n -> GtArrays] :
             inp = [b \in 1..n |-> [img |-> <<"img", b - 1>>, gt |-> gts[b]]]
    /\ out = <<>>

BatchInd ==
    /\ pc = "input"
    /\ out' = batch_ind_fn(inp)
    /\ pc' = "done"
    /\ UNCHANGED inp

NextBatch == BatchInd /\ UNCHANGED ssdVars

SpecBatch == InitBatch /\ [][NextBatch]_vars

\* all ground-truth arrays of the batch have K columns
SameCols(batch) == \A b \in 1..Len(batch) : batch[b].gt.shape[2] = batch[1].gt.shape[2]

\* rows of the images before image b (1-based b)
RowsBefore(batch, b) == SumSeq([a \in 1..(b - 1) |-> batch[a].gt.shape[1]])

\* C7 as stated: sum of M_b rows of K+1 columns, the rows of image b contiguous
\* in batch order and in their own order, column 0 equal to b and columns 1..K
\* equal to the original row unchanged.
C7_RowsUnchanged ==
    (pc = "done" /\ SameCols(inp)) =>
        /\ out.result = "ok"
        /\ Len(out.gts) = RowsBefore(inp, Len(inp) + 1)
        /\ \A b \in 1..Len(inp) : \A r \in 1..inp[b].gt.shape[1] :
              LET row == out.gts[RowsBefore(inp, b) + r]
              IN /\ Len(row) = inp[1].gt.shape[2] + 1
                 /\ row[1] = b - 1
                 /\ \A c \in 1..inp[b].gt.shape[2] : row[c + 1] = inp[b].gt.rows[r][c]

\* the nearest float32 of a natural number, stated without the rounding steps:
\* a multiple of the spacing of its binade that no other multiple is closer to
IsNearestFloat32(y, x) ==
    LET ulp == IF x < 2^24 THEN 1 ELSE 2^(Log2Floor(x) - 23)
    IN /\ y % ulp = 0
       /\ 2 * (IF y >= x THEN y - x ELSE x - y) <= ulp

\* C7 (amended): as above, except that columns 1..K hold the original values
\* rounded to float32, which is the original value whenever float32
\* represents it (every integer below 2^24 in particular).
C7_RowsTaggedFloat32 ==
    (pc = "done" /\ SameCols(inp)) =>
        /\ out.result = "ok"
        /\ Len(out.gts) = RowsBefore(inp, Len(inp) + 1)
        /\ \A b \in 1..Len(inp) : \A r \in 1..inp[b].gt.shape[1] :
              LET row == out.gts[RowsBefore(inp, b) + r]
              IN /\ Len(row) = inp[1].gt.shape[2] + 1
                 /\ row[1] = b - 1
                 /\ \A c \in 1..inp[b].gt.shape[2] :
                       LET x == inp[b].gt.rows[r][c]
                       IN /\ IsNearestFloat32(row[c + 1], x)
                          /\ x < 2^24 => row[c + 1] = x

\* a batch of two images, the first without ground truth, the second with two
\* rows, one of which holds a value float32 cannot represent
C7_Witness ==
    /\ pc = "done"
    /\ Len(inp) = 2
    /\ inp[1].gt.shape = <<0, 2>>
    /\ inp[2].gt.shape = <<2, 2>>
    /\ inp[2].gt.rows[2] = <<1, 16777217>>
    /\ out.result = "ok"
    /\ out.gts = <<<<1, inp[2].gt.rows[1][1], Float32(inp[2].gt.rows[1][2])>>,
                   <<1, 1, 16777216>>>>

----------------------------------------------------------------------------
(* Properties of SSDBase (SpecSSD) *)

\* C2: a forward call changes no flag; it returns only if the three build flags
\* are set and some earlier learn or infer call returned normally, and in
\* every other state it raises NotImplementedError.
C2_ForwardGated ==
    [][call'.op = "forward" =>
          LET ready == isbuilt_layer /\ isbuilt_box /\ isbuilt_infBox /\ succeeded
          IN /\ flags' = flags
             /\ call'.result = "ok" => ready
             /\ ~ready => call'.result = "NotImplementedError"]_vars

\* forward has returned on a fully built model after a learn or infer call
C2_Witness ==
    /\ call.op = "forward"
    /\ call.result = "ok"
    /\ isbuilt_layer /\ isbuilt_box /\ isbuilt_infBox
    /\ succeeded

\* C3 as stated: after every build call _isbuilt_infBox implies _isbuilt_box
\* and _isbuilt_box implies _isbuilt_layer, and _build_defaultBox before
\* _build_layers raises and leaves the flags unchanged.
C3_BuildOrder ==
    [][/\ isbuilt_infBox' => isbuilt_box'
       /\ isbuilt_box' => isbuilt_layer'
       /\ (call'.op = "_build_defaultBox" /\ ~isbuilt_layer) =>
             (call'.result = "NotImplementedError" /\ flags' = flags)]_vars

\* C3 (amended): _isbuilt_box implies _isbuilt_layer in every state, and
\* _build_defaultBox before _build_layers raises and leaves the flags
\* unchanged; _isbuilt_infBox is not ordered after the other two.
C3_BoxAfterLayers ==
    [][/\ isbuilt_box' => isbuilt_layer'
       /\ (call'.op = "_build_defaultBox" /\ ~isbuilt_layer) =>
             (call'.result = "NotImplementedError" /\ flags' = flags)]_vars

\* _build_defaultBox has been refused on a model whose inference box is
\* already built
C3_Witness ==
    /\ call.op = "_build_defaultBox"
    /\ call.result = "NotImplementedError"
    /\ isbuilt_infBox
    /\ ~isbuilt_box
    /\ ~isbuilt_layer

\* the per-image shape of an infer call differs from (channel, height, width)
ShapeDiffers(c) ==
    \/ c.convert_torch /\ Len(Unsqueezed(c.image.shape)) # 4
    \/ Tail(ImgShape(c.image, c.convert_torch)) #
          <<input_shape[3], input_shape[1], input_shape[2]>>

\* C4: in eval mode infer raises the shape ValueError, returns nothing and
\* leaves _called_learn_inferr unchanged for every image whose per-image shape
\* differs from (channel, height, width); for every other image it sets
\* _called_learn_inferr and returns the pair.
C4_InferRejectsMismatch ==
    [][(call'.op = "infer" /\ ~training /\ call'.image.type = "Tensor") =>
          IF ShapeDiffers(call')
            THEN /\ call'.result = "ValueError:shape"
                 /\ call'.ret = <<>>
                 /\ called_learn_inferr' = called_learn_inferr
            ELSE /\ call'.result = "ok"
                 /\ Len(call'.ret) = 2
                 /\ called_learn_inferr']_vars

\* C5: in every infer call the shape check comes before the normalization
\* arithmetic, so arithmetic is only done on an image of the expected shape.
C5_CheckBeforeArith ==
    call.op = "infer" =>
        \A k \in 1..Len(call.steps) :
            call.steps[k] = "arith" =>
                /\ \E j \in 1..(k - 1) : call.steps[j] = "check"
                /\ ~ShapeDiffers(call)

\* C8: learn outside training mode and infer in training mode raise
\* NotImplementedError and leave _called_learn_inferr unchanged; only learn and
\* infer change _called_learn_inferr; no flag ever goes from true to false.
C8_ModeGatedAndMonotone ==
    [][/\ (call'.op = "learn" /\ ~training) =>
             (call'.result = "NotImplementedError"
              /\ called_learn_inferr' = called_learn_inferr)
       /\ (call'.op = "infer" /\ training) =>
             (call'.result = "NotImplementedError"
              /\ called_learn_inferr' = called_learn_inferr)
       /\ called_learn_inferr' # called_learn_inferr => call'.op \in {"learn", "infer"}
       /\ \A k \in 1..4 : flags[k] => flags'[k]]_vars

\* learn has been refused in eval mode on a model whose flag an earlier infer
\* call had set, and the flag is still set
C8_Witness ==
    /\ call.op = "learn"
    /\ call.result = "NotImplementedError"
    /\ ~training
    /\ called_learn_inferr

\* C10: a to or cuda call on a fully built model whose default boxes are with
\* the parameters leaves them with the parameters; a to call on a model that
\* is not fully built raises NotImplementedError and moves no parameter.
C10_DboxesFollowModel ==
    [][/\ (call'.op \in {"to", "cuda"} /\ isbuilt_layer /\ isbuilt_box
           /\ isbuilt_infBox /\ dboxDevice = paramDevice) =>
             dboxDevice' = paramDevice'
       /\ (call'.op = "to" /\ ~(isbuilt_layer /\ isbuilt_box /\ isbuilt_infBox)) =>
             (call'.result = "NotImplementedError" /\ paramDevice' = paramDevice)]_vars

====
